---------------------------- MODULE Spec2Model ----------------------------
(***************************************************************************)
(* A model of src/app.py: the movie dashboard's data pipeline.             *)
(*                                                                         *)
(* load_and_process_data reads two tables (the KOBIS weekly box office and *)
(* the TMDB catalogue), main keeps the recent years, and four views        *)
(* (show_key_metrics, show_korean_analysis, show_global_analysis,          *)
(* show_insights) run one after the other on the two filtered tables.      *)
(*                                                                         *)
(* A table (a pandas DataFrame) is a record [none, cols, rows]: the set of *)
(* its column names and the sequence of its rows.  A row carries idx, the  *)
(* index label pandas gives it when the file is read (its position in the  *)
(* file), which boolean filtering keeps.  A cell is [na, v]: na is pandas' *)
(* missing value (NaN, NaT), v the value.  Ratings and popularity are kept *)
(* in tenths (8.5 is 85), a raw date is the number YYYYMM.  A string is a  *)
(* sequence of one-character strings.  Floating point results that the     *)
(* code formats for display (means, rates) are kept exact, as a pair       *)
(* <<numerator, denominator>>.  Charts, tables and markup are left out.    *)
(***************************************************************************)
EXTENDS Integers, Sequences, FiniteSets, TLC

VARIABLES
    kobis_csv,      \* the file kobis_weekly_2013_2025_enriched.csv as read
    tmdb_csv,       \* the file tmdb_global_top_2014_2024_N100_with_genres.csv
    kobis_df,       \* load_and_process_data's first result
    tmdb_df,        \* load_and_process_data's second result
    kobis_recent,   \* main's kobis_recent, the table the views are given
    tmdb_recent,    \* main's tmdb_recent
    key_metrics,    \* what show_key_metrics computed
    korean,         \* what show_korean_analysis computed
    global,         \* what show_global_analysis computed
    insights,       \* what show_insights computed
    fault,          \* the exception that ended the script, or "none"
    pc              \* where main is

vars == <<kobis_csv, tmdb_csv, kobis_df, tmdb_df, kobis_recent, tmdb_recent,
          key_metrics, korean, global, insights, fault, pc>>

----------------------------------------------------------------------------
(* Bounds of the model.                                                    *)

MaxRows == 2
PadRows == 11
TiePad == 2

----------------------------------------------------------------------------
(* Cells and tables.                                                       *)

NaN == [na |-> TRUE, v |-> 0]
NaNStr == [na |-> TRUE, v |-> <<>>]
Num(x) == [na |-> FALSE, v |-> x]
Str(s) == [na |-> FALSE, v |-> s]

\* pandas comparisons: every comparison with a missing value is False.
Ge(c, k) == ~c.na /\ c.v >= k
Le(c, k) == ~c.na /\ c.v <= k
Lt(c, k) == ~c.na /\ c.v < k

None == [none |-> TRUE, cols |-> {}, rows |-> <<>>]
Frame(cols, rows) == [none |-> FALSE, cols |-> cols, rows |-> rows]
Empty(df) == Len(df.rows) = 0

\* len(df[mask]) for a column test: the rows whose cell satisfies it.
CountGe(rows, col, k) == Len(SelectSeq(rows, LAMBDA r : Ge(r[col], k)))
CountNa(rows, col) == Len(SelectSeq(rows, LAMBDA r : r[col].na))
CountValid(rows, col) == Len(SelectSeq(rows, LAMBDA r : ~r[col].na))

RECURSIVE SumCol(_, _)
\* Series.sum(): missing values are skipped, the sum of nothing is 0.
SumCol(rows, col) ==
    IF rows = <<>> THEN 0
    ELSE (IF Head(rows)[col].na THEN 0 ELSE Head(rows)[col].v)
         + SumCol(Tail(rows), col)

\* Series.mean(): the mean of the values that are not missing; NaN if none.
MeanCol(rows, col) ==
    IF CountValid(rows, col) = 0 THEN [na |-> TRUE, v |-> <<0, 1>>]
    ELSE [na |-> FALSE, v |-> <<SumCol(rows, col), CountValid(rows, col)>>]

\* Series.max(): the largest value that is not missing; NaN if none.
MaxCol(rows, col) ==
    LET vs == {rows[i][col].v : i \in {j \in 1..Len(rows) : ~rows[j][col].na}}
    IN  IF vs = {} THEN NaN
        ELSE Num(CHOOSE m \in vs : \A x \in vs : x <= m)

----------------------------------------------------------------------------
(* load_and_process_data                                                   *)

KobisColumns == {"year", "openDt", "audiCnt", "salesAmt", "audiAcc",
                 "scrnCnt", "movieNm", "genres"}
TmdbColumns == {"year", "release_date", "vote_average", "popularity",
                "title", "vote_count", "original_language"}

\* The columns load_and_process_data itself reads: a KeyError on any of them
\* is caught by its except clause.
KobisLoadColumns == {"year", "openDt", "audiCnt", "salesAmt"}
TmdbLoadColumns == {"year", "release_date", "vote_average"}

current_year == 2024
RatingMax == 100

\* pd.to_datetime(errors='coerce'): a value that is no date becomes NaT.
ToDatetime(c) ==
    IF ~c.na /\ (c.v % 100) \in 1..12 /\ c.v \div 100 >= 1 THEN c ELSE NaN

CoerceKobis(r) == [r EXCEPT !.openDt = ToDatetime(r.openDt)]
CoerceTmdb(r) == [r EXCEPT !.release_date = ToDatetime(r.release_date)]

CoerceKobisRows(rows) == [i \in 1..Len(rows) |-> CoerceKobis(rows[i])]
CoerceTmdbRows(rows) == [i \in 1..Len(rows) |-> CoerceTmdb(rows[i])]

\* KeepKobis without the salesAmt filter.
KeepKobisNoSales(r) == Le(r.year, current_year) /\ Ge(r.audiCnt, 0)

KeepKobis(r) == Le(r.year, current_year) /\ Ge(r.audiCnt, 0) /\ Ge(r.salesAmt, 0)

KeepTmdb(r) ==
    Le(r.year, current_year) /\ Ge(r.vote_average, 0) /\ Le(r.vote_average, RatingMax)

LoadKobis(csv) == Frame(csv.cols, CoerceKobisRows(SelectSeq(csv.rows, KeepKobis)))
LoadTmdb(csv) == Frame(csv.cols, CoerceTmdbRows(SelectSeq(csv.rows, KeepTmdb)))

LoadRaises(kcsv, tcsv) ==
    ~(KobisLoadColumns \subseteq kcsv.cols) \/ ~(TmdbLoadColumns \subseteq tcsv.cols)

load_and_process_data ==
    /\ pc = "start"
    /\ IF LoadRaises(kobis_csv, tmdb_csv)
       THEN kobis_df' = None /\ tmdb_df' = None
       ELSE kobis_df' = LoadKobis(kobis_csv) /\ tmdb_df' = LoadTmdb(tmdb_csv)
    /\ pc' = "loaded"
    /\ UNCHANGED <<kobis_csv, tmdb_csv, kobis_recent, tmdb_recent,
                   key_metrics, korean, global, insights, fault>>

----------------------------------------------------------------------------
(* main                                                                    *)

recent_years == {2022, 2023, 2024}

IsRecent(r) == ~r.year.na /\ r.year.v \in recent_years
RecentOf(df) == Frame(df.cols, SelectSeq(df.rows, IsRecent))

main_stop ==
    /\ pc = "loaded"
    /\ kobis_df.none \/ tmdb_df.none
    /\ pc' = "stopped"
    /\ UNCHANGED <<kobis_csv, tmdb_csv, kobis_df, tmdb_df, kobis_recent,
                   tmdb_recent, key_metrics, korean, global, insights, fault>>

main_filter ==
    /\ pc = "loaded"
    /\ ~(kobis_df.none \/ tmdb_df.none)
    /\ kobis_recent' = RecentOf(kobis_df)
    /\ tmdb_recent' = RecentOf(tmdb_df)
    /\ pc' = "tab1"
    /\ UNCHANGED <<kobis_csv, tmdb_csv, kobis_df, tmdb_df,
                   key_metrics, korean, global, insights, fault>>

----------------------------------------------------------------------------
(* DataFrame.nlargest(n, col), keep='first'.  The result: the rows whose   *)
(* value is not missing, largest first; then the rows whose value is       *)
(* missing, in their order in the frame; of these the first n.  A frame of *)
(* more than n rows is ranked by a merge sort: rows of equal value come in *)
(* their order in the frame.  A frame of at most n rows goes through       *)
(* sort_values(ascending=False).head(n), an argsort of the values of kind  *)
(* 'quicksort', which the library documents as not stable: on up to        *)
(* StableLen values no build moves equal values, on more the order of      *)
(* equal values is the build's (insertion sort on one, a sorting network   *)
(* on another), so the result is any one of the descending orders.         *)

TopN == 10

\* The most values of which every build's quicksort argsort leaves equal
\* values in their order.
StableLen == 3

RECURSIVE InsertDesc(_, _, _)
\* r goes behind every row whose value is at least its own.
InsertDesc(sorted, r, col) ==
    IF sorted = <<>> THEN <<r>>
    ELSE IF Head(sorted)[col].v >= r[col].v
         THEN <<Head(sorted)>> \o InsertDesc(Tail(sorted), r, col)
         ELSE <<r>> \o sorted

RECURSIVE SortDesc(_, _)
SortDesc(rows, col) ==
    IF rows = <<>> THEN <<>>
    ELSE InsertDesc(SortDesc(SubSeq(rows, 1, Len(rows) - 1), col),
                    rows[Len(rows)], col)

RECURSIVE InsertDescAny(_, _, _)
\* The ways to put r into sorted: behind the rows of greater value, before
\* those of smaller value, anywhere among those of its own value.
InsertDescAny(sorted, r, col) ==
    IF sorted = <<>> THEN {<<r>>}
    ELSE IF Head(sorted)[col].v > r[col].v
         THEN {<<Head(sorted)>> \o s : s \in InsertDescAny(Tail(sorted), r, col)}
         ELSE IF Head(sorted)[col].v = r[col].v
              THEN {<<r>> \o sorted}
                   \cup {<<Head(sorted)>> \o s : s \in InsertDescAny(Tail(sorted), r, col)}
              ELSE {<<r>> \o sorted}

RECURSIVE SortDescAny(_, _)
\* Every descending order of the rows.
SortDescAny(rows, col) ==
    IF rows = <<>> THEN {<<>>}
    ELSE UNION {InsertDescAny(s, rows[Len(rows)], col) :
                   s \in SortDescAny(SubSeq(rows, 1, Len(rows) - 1), col)}

FirstN(rows, n) == SubSeq(rows, 1, IF Len(rows) < n THEN Len(rows) ELSE n)

\* The results nlargest may give.
NLargest(rows, n, col) ==
    LET valid == SelectSeq(rows, LAMBDA r : ~r[col].na)
        missing == SelectSeq(rows, LAMBDA r : r[col].na)
    IN  IF n >= Len(rows) /\ Len(valid) > StableLen
        THEN {FirstN(s \o missing, n) : s \in SortDescAny(valid, col)}
        ELSE {FirstN(SortDesc(valid, col) \o missing, n)}

\* The ranking table shown: the row's index label and its ranked value.
Ranked(rows, col) == [i \in 1..Len(rows) |-> [idx |-> rows[i].idx, val |-> rows[i][col]]]

----------------------------------------------------------------------------
(* show_key_metrics                                                        *)

AllNa(rows, col) == \A i \in 1..Len(rows) : rows[i][col].na

\* Series.idxmax(): the index label of the first row holding the largest value.
IdxMax(rows, col) ==
    LET m == MaxCol(rows, col).v
        i == CHOOSE j \in 1..Len(rows) :
                /\ ~rows[j][col].na /\ rows[j][col].v = m
                /\ \A h \in 1..(j - 1) : rows[h][col].na \/ rows[h][col].v # m
    IN  rows[i].idx

\* groupby(key)[col].sum(): one group per key value that is not missing.
GroupKeys(rows, key) == {rows[i][key].v : i \in {j \in 1..Len(rows) : ~rows[j][key].na}}
GroupRows(rows, key, k) == SelectSeq(rows, LAMBDA r : ~r[key].na /\ r[key].v = k)
GroupSum(rows, key, col) == [k \in GroupKeys(rows, key) |-> SumCol(GroupRows(rows, key, k), col)]
GroupSize(rows, key) == [k \in GroupKeys(rows, key) |-> Len(GroupRows(rows, key, k))]

\* Series.dt.month of a datetime column: the month, NaN for NaT.
MonthOf(c) == IF c.na THEN NaN ELSE Num(c.v % 100)

\* df['month'] = df['openDt'].dt.month: the frame gains (or overwrites) a column.
WithMonth(df) ==
    Frame(df.cols \cup {"month"},
          [i \in 1..Len(df.rows) |-> [df.rows[i] EXCEPT !.month = MonthOf(df.rows[i].openDt)]])

HasDates(df) == "openDt" \in df.cols /\ ~AllNa(df.rows, "openDt")

KeyMetricsRaises(k, t) ==
    \/ /\ ~Empty(k)
       /\ \/ "audiAcc" \notin k.cols
          \/ AllNa(k.rows, "audiAcc")
          \/ "scrnCnt" \notin k.cols
          \/ "movieNm" \notin k.cols
    \/ ~Empty(t) /\ "vote_average" \notin t.cols
    \/ {"year", "audiCnt"} \ k.cols # {}

NoKeyMetrics == [ran |-> FALSE]

KeyMetricsOf(k, t) ==
    [ran |-> TRUE,
     top_korean_movie |-> IF Empty(k) THEN 0 ELSE IdxMax(k.rows, "audiAcc"),
     total_audience |-> IF Empty(k) THEN 0 ELSE SumCol(k.rows, "audiAcc"),
     avg_screen |-> IF Empty(k) THEN [na |-> FALSE, v |-> <<0, 1>>]
                    ELSE MeanCol(k.rows, "scrnCnt"),
     top_rating |-> IF Empty(t) THEN Num(0) ELSE MaxCol(t.rows, "vote_average"),
     yearly_audience |-> GroupSum(k.rows, "year", "audiCnt"),
     monthly_releases |-> IF HasDates(k) THEN GroupSize(WithMonth(k).rows, "month")
                          ELSE <<>>]

show_key_metrics ==
    /\ pc = "tab1"
    /\ IF KeyMetricsRaises(kobis_recent, tmdb_recent)
       THEN /\ fault' = "KeyError"
            /\ pc' = "crashed"
            /\ UNCHANGED <<key_metrics, kobis_recent>>
       ELSE /\ key_metrics' = KeyMetricsOf(kobis_recent, tmdb_recent)
            /\ kobis_recent' = IF HasDates(kobis_recent) THEN WithMonth(kobis_recent)
                               ELSE kobis_recent
            /\ pc' = "tab2"
            /\ UNCHANGED fault
    /\ UNCHANGED <<kobis_csv, tmdb_csv, kobis_df, tmdb_df, tmdb_recent,
                   korean, global, insights>>

----------------------------------------------------------------------------
(* show_korean_analysis                                                    *)

\* AudienceCounts with the second mask closed at its upper end.
AudienceCountsInclusive(rows) ==
    << Len(SelectSeq(rows, LAMBDA r : Lt(r.audiAcc, 100000))),
       Len(SelectSeq(rows, LAMBDA r : Ge(r.audiAcc, 100000) /\ Le(r.audiAcc, 1000000))),
       Len(SelectSeq(rows, LAMBDA r : Ge(r.audiAcc, 1000000) /\ Lt(r.audiAcc, 5000000))),
       Len(SelectSeq(rows, LAMBDA r : Ge(r.audiAcc, 5000000) /\ Lt(r.audiAcc, 10000000))),
       Len(SelectSeq(rows, LAMBDA r : Ge(r.audiAcc, 10000000))) >>

\* The audience distribution: len(df[mask]) for each of the five masks.
AudienceCounts(rows) ==
    << Len(SelectSeq(rows, LAMBDA r : Lt(r.audiAcc, 100000))),
       Len(SelectSeq(rows, LAMBDA r : Ge(r.audiAcc, 100000) /\ Lt(r.audiAcc, 1000000))),
       Len(SelectSeq(rows, LAMBDA r : Ge(r.audiAcc, 1000000) /\ Lt(r.audiAcc, 5000000))),
       Len(SelectSeq(rows, LAMBDA r : Ge(r.audiAcc, 5000000) /\ Lt(r.audiAcc, 10000000))),
       Len(SelectSeq(rows, LAMBDA r : Ge(r.audiAcc, 10000000))) >>

\* str.split(','): the parts between the commas, empty parts included.
Split(s) ==
    LET parts[i \in 0..Len(s)] ==
            IF i = 0 THEN << <<>> >>
            ELSE IF s[i] = "," THEN Append(parts[i - 1], <<>>)
                 ELSE [parts[i - 1] EXCEPT ![Len(parts[i - 1])] = Append(@, s[i])]
    IN  parts[Len(s)]

\* The characters str.strip() removes when called without an argument: those
\* for which str.isspace() is true.  A character that cannot be written in a
\* string of this module stands as its code point, "U+3000".
Whitespace ==
    {" ", "\t", "\n", "\r", "\f", "U+000B", "U+001C", "U+001D", "U+001E", "U+001F",
     "U+0085", "U+00A0", "U+1680", "U+2000", "U+2001", "U+2002", "U+2003",
     "U+2004", "U+2005", "U+2006", "U+2007", "U+2008", "U+2009", "U+200A",
     "U+2028", "U+2029", "U+202F", "U+205F", "U+3000"}

RECURSIVE Strip(_)
\* str.strip(): without the whitespace at either end; whitespace inside stays.
Strip(s) ==
    IF s = <<>> THEN s
    ELSE IF Head(s) \in Whitespace THEN Strip(Tail(s))
         ELSE IF s[Len(s)] \in Whitespace THEN Strip(SubSeq(s, 1, Len(s) - 1))
              ELSE s

\* The rows genre_data gains from one row: one per part that is not empty
\* once stripped.  row is the index label of the row the entry comes from: the
\* code does not keep it, the model does to tell the entries of a row apart.
GenreEntries(r) ==
    LET parts == Split(r.genres.v)
        one(i) == IF Strip(parts[i]) = <<>> THEN <<>>
                  ELSE << [genre |-> Strip(parts[i]),
                           audiCnt |-> IF r.audiCnt.na THEN 0 ELSE r.audiCnt.v,
                           salesAmt |-> IF r.salesAmt.na THEN 0 ELSE r.salesAmt.v,
                           row |-> r.idx] >>
        acc[i \in 0..Len(parts)] == IF i = 0 THEN <<>> ELSE acc[i - 1] \o one(i)
    IN  IF r.genres.na THEN <<>> ELSE acc[Len(parts)]

RECURSIVE GenreData(_)
GenreData(rows) ==
    IF rows = <<>> THEN <<>>
    ELSE GenreEntries(Head(rows)) \o GenreData(Tail(rows))

RECURSIVE SumField(_, _)
SumField(entries, f) ==
    IF entries = <<>> THEN 0 ELSE Head(entries)[f] + SumField(Tail(entries), f)

\* round(0) of num/den, halves to the even neighbour (numpy's rounding).
RoundHalfEven(num, den) ==
    LET q == num \div den
        r == num % den
    IN  IF 2 * r < den THEN q
        ELSE IF 2 * r > den THEN q + 1
             ELSE IF q % 2 = 0 THEN q ELSE q + 1

GenreLabels(gd) == {gd[i].genre : i \in 1..Len(gd)}
GenreGroup(gd, g) == SelectSeq(gd, LAMBDA e : e.genre = g)

\* groupby('genre').agg(audiCnt: sum, mean, count; salesAmt: sum).round(0)
GenreStats(gd, g) ==
    [total_audience |-> SumField(GenreGroup(gd, g), "audiCnt"),
     mean_audience |-> RoundHalfEven(SumField(GenreGroup(gd, g), "audiCnt"),
                                     Len(GenreGroup(gd, g))),
     movies |-> Len(GenreGroup(gd, g)),
     total_sales |-> SumField(GenreGroup(gd, g), "salesAmt")]

GenreTop == 8

Min(a, b) == IF a < b THEN a ELSE b

\* sort_values(total, ascending=False).head(8): the genres kept.  The sort is
\* not a stable one, so which of several genres of equal total are kept is
\* any of them.
GenreKept(gd) ==
    {S \in SUBSET GenreLabels(gd) :
        /\ Cardinality(S) = Min(GenreTop, Cardinality(GenreLabels(gd)))
        /\ \A a \in S : \A b \in GenreLabels(gd) \ S :
              GenreStats(gd, a).total_audience >= GenreStats(gd, b).total_audience}

HasGenres(df) == "genres" \in df.cols /\ ~AllNa(df.rows, "genres")

\* Line 240 selects these columns of the ranking.
KoreanRaises(k) ==
    ~Empty(k) /\ {"movieNm", "audiAcc", "openDt", "year"} \ k.cols # {}

\* top_movies['year'].astype(int) raises on a missing year.
YearCastRaises(top) == \E i \in 1..Len(top) : top[i].year.na

\* The genre loop reads row['audiCnt'] and row['salesAmt'] for the first part
\* that is not empty.
GenreRaises(k) ==
    /\ HasGenres(k)
    /\ GenreData(k.rows) # <<>>
    /\ {"audiCnt", "salesAmt"} \ k.cols # {}

NoKorean == [status |-> "none"]

KoreanOf(k, top, kept) ==
    [status |-> "done",
     top_movies |-> Ranked(top, "audiAcc"),
     audience_counts |-> AudienceCounts(k.rows),
     genre_data |-> IF HasGenres(k) THEN GenreData(k.rows) ELSE <<>>,
     genre_summary |-> [g \in kept |-> GenreStats(GenreData(k.rows), g)]]

show_korean_analysis ==
    /\ pc = "tab2"
    /\ IF Empty(kobis_recent)
       THEN korean' = [status |-> "empty"] /\ pc' = "tab3" /\ UNCHANGED fault
       ELSE IF KoreanRaises(kobis_recent)
       THEN fault' = "KeyError" /\ pc' = "crashed" /\ UNCHANGED korean
       ELSE \E top \in NLargest(kobis_recent.rows, TopN, "audiAcc") :
            \E kept \in GenreKept(IF HasGenres(kobis_recent)
                                  THEN GenreData(kobis_recent.rows) ELSE <<>>) :
               IF YearCastRaises(top)
               THEN fault' = "ValueError" /\ pc' = "crashed" /\ UNCHANGED korean
               ELSE IF GenreRaises(kobis_recent)
               THEN fault' = "KeyError" /\ pc' = "crashed" /\ UNCHANGED korean
               ELSE /\ korean' = KoreanOf(kobis_recent, top, kept)
                    /\ pc' = "tab3"
                    /\ UNCHANGED fault
    /\ UNCHANGED <<kobis_csv, tmdb_csv, kobis_df, tmdb_df, kobis_recent,
                   tmdb_recent, key_metrics, global, insights>>

----------------------------------------------------------------------------
(* show_global_analysis                                                    *)

LangTop == 10

\* groupby('original_language').agg(title: count, vote_average: mean,
\* popularity: mean): every title is present, so the count is the group's size.
LangStats(rows, l) ==
    [movies |-> Len(GroupRows(rows, "original_language", l)),
     mean_rating |-> MeanCol(GroupRows(rows, "original_language", l), "vote_average"),
     mean_popularity |-> MeanCol(GroupRows(rows, "original_language", l), "popularity")]

\* sort_values(movies, ascending=False).head(10): the languages kept, any of
\* those of equal count.
LangKept(rows) ==
    LET ls == GroupKeys(rows, "original_language")
    IN  {S \in SUBSET ls :
           /\ Cardinality(S) = Min(LangTop, Cardinality(ls))
           /\ \A a \in S : \A b \in ls \ S :
                 LangStats(rows, a).movies >= LangStats(rows, b).movies}

GlobalRaises(t) ==
    ~Empty(t) /\ {"title", "vote_average", "vote_count", "year", "popularity"} \ t.cols # {}

NoGlobal == [status |-> "none"]

show_global_analysis ==
    /\ pc = "tab3"
    /\ IF Empty(tmdb_recent)
       THEN global' = [status |-> "empty"] /\ pc' = "tab4" /\ UNCHANGED fault
       ELSE IF GlobalRaises(tmdb_recent)
       THEN fault' = "KeyError" /\ pc' = "crashed" /\ UNCHANGED global
       ELSE /\ \E rated \in NLargest(tmdb_recent.rows, TopN, "vote_average") :
               \E popular \in NLargest(tmdb_recent.rows, TopN, "popularity") :
               \E kept \in (IF "original_language" \in tmdb_recent.cols
                            THEN LangKept(tmdb_recent.rows) ELSE {{}}) :
                 global' =
                   [status |-> "done",
                    top_rated |-> Ranked(rated, "vote_average"),
                    top_popular |-> Ranked(popular, "popularity"),
                    lang_analysis |-> [l \in kept |-> LangStats(tmdb_recent.rows, l)]]
            /\ pc' = "tab4"
            /\ UNCHANGED fault
    /\ UNCHANGED <<kobis_csv, tmdb_csv, kobis_df, tmdb_df, kobis_recent,
                   tmdb_recent, key_metrics, korean, insights>>

----------------------------------------------------------------------------
(* show_insights                                                           *)

\* Rate without the factor 100.
RatePlain(count, total) == IF total > 0 THEN <<count, total>> ELSE <<0, 1>>

\* (count / total * 100) if total > 0 else 0, as the exact fraction.
Rate(count, total) == IF total > 0 THEN <<count * 100, total>> ELSE <<0, 1>>

SummerMonths == {6, 7, 8}

BlockbusterRate(k) == Rate(CountGe(k.rows, "audiAcc", 10000000), Len(k.rows))

SummerRate(k) ==
    Rate(Len(SelectSeq(WithMonth(k).rows,
                       LAMBDA r : ~r.month.na /\ r.month.v \in SummerMonths)),
         CountValid(k.rows, "openDt"))

QualityRate(t) == Rate(CountGe(t.rows, "vote_average", 80), Len(t.rows))

\* Series.min(): the smallest value that is not missing; NaN if none.
MinCol(rows, col) ==
    LET vs == {rows[i][col].v : i \in {j \in 1..Len(rows) : ~rows[j][col].na}}
    IN  IF vs = {} THEN NaN
        ELSE Num(CHOOSE m \in vs : \A x \in vs : m <= x)

\* The insights computed, by name, each with its rate.
RatesOf(k, t) ==
    [n \in (IF Empty(k) THEN {} ELSE {"blockbuster"})
           \cup (IF ~Empty(k) /\ HasDates(k) THEN {"summer"} ELSE {})
           \cup (IF Empty(t) THEN {} ELSE {"quality"}) |->
        CASE n = "blockbuster" -> BlockbusterRate(k)
          [] n = "summer" -> SummerRate(k)
          [] n = "quality" -> QualityRate(t)]

KobisSummary(k) ==
    [movies |-> Len(k.rows),
     year_min |-> MinCol(k.rows, "year"),
     year_max |-> MaxCol(k.rows, "year"),
     total_audience |-> SumCol(k.rows, "audiAcc"),
     avg_screen |-> MeanCol(k.rows, "scrnCnt")]

TmdbSummary(t) ==
    [movies |-> Len(t.rows),
     year_min |-> MinCol(t.rows, "year"),
     year_max |-> MaxCol(t.rows, "year"),
     avg_rating |-> MeanCol(t.rows, "vote_average"),
     avg_popularity |-> MeanCol(t.rows, "popularity")]

\* Line 359 reads audiAcc before the month column is assigned.
InsightsRaisesEarly(k) == ~Empty(k) /\ "audiAcc" \notin k.cols

\* Lines 383, 421-423 and 431-433 read their columns after it.
InsightsRaises(k, t) ==
    \/ ~Empty(k) /\ {"scrnCnt", "year"} \ k.cols # {}
    \/ ~Empty(t) /\ {"vote_average", "popularity", "year"} \ t.cols # {}

NoInsights == [ran |-> FALSE]

InsightsOf(k, t) ==
    [ran |-> TRUE,
     rates |-> RatesOf(k, t),
     unique_languages |-> IF ~Empty(t) /\ "original_language" \in t.cols
                          THEN Cardinality(GroupKeys(t.rows, "original_language"))
                          ELSE 0,
     kobis_summary |-> IF Empty(k) THEN <<>> ELSE KobisSummary(k),
     tmdb_summary |-> IF Empty(t) THEN <<>> ELSE TmdbSummary(t)]

show_insights ==
    /\ pc = "tab4"
    /\ IF InsightsRaisesEarly(kobis_recent)
       THEN /\ fault' = "KeyError"
            /\ pc' = "crashed"
            /\ UNCHANGED <<insights, kobis_recent>>
       ELSE /\ kobis_recent' = IF ~Empty(kobis_recent) /\ HasDates(kobis_recent)
                               THEN WithMonth(kobis_recent) ELSE kobis_recent
            /\ IF InsightsRaises(kobis_recent, tmdb_recent)
               THEN fault' = "KeyError" /\ pc' = "crashed" /\ UNCHANGED insights
               ELSE /\ insights' = InsightsOf(kobis_recent, tmdb_recent)
                    /\ pc' = "done"
                    /\ UNCHANGED fault
    /\ UNCHANGED <<kobis_csv, tmdb_csv, kobis_df, tmdb_df, tmdb_recent,
                   key_metrics, korean, global>>

----------------------------------------------------------------------------
(* The files read: the inputs of the model.                                *)
(*                                                                         *)
(* A KOBIS row has a month cell from the start, missing until a view       *)
(* assigns the column: whether the frame has the column is in its cols.    *)
(* movieNm, title and vote_count are columns only: their values are shown  *)
(* and never computed with, and every title is taken to be present.        *)

KRow ==
    [idx |-> 0, year |-> Num(2023), openDt |-> Num(202307), audiCnt |-> Num(100),
     salesAmt |-> Num(1000), audiAcc |-> Num(1000000), scrnCnt |-> Num(50),
     genres |-> Str(<<"A">>), month |-> NaN]

TRow ==
    [idx |-> 0, year |-> Num(2023), release_date |-> Num(202305),
     vote_average |-> Num(85), popularity |-> Num(50),
     original_language |-> Str("en")]

\* f's rows, each labelled by its position in the file.
Labelled(f) == [i \in 1..Len(f) |-> [f[i] EXCEPT !.idx = i]]

\* rows followed by n copies of row r.
Padded(rows, r, n) ==
    rows \o [i \in 1..n |-> [r EXCEPT !.idx = Len(rows) + i]]

DefaultKobis == Frame(KobisColumns, Padded(<<>>, KRow, 1))
DefaultTmdb == Frame(TmdbColumns, Padded(<<>>, TRow, 1))

\* Rows that differ in audiAcc: each cut point of the distribution, the value
\* just below it, and a missing value.
AudienceRows ==
    {[KRow EXCEPT !.audiAcc = a] :
        a \in {NaN, Num(99999), Num(100000), Num(999999), Num(1000000),
               Num(4999999), Num(5000000), Num(9999999), Num(10000000)}}

\* Rows the load may drop.
OutlierRows ==
    {KRow,
     [KRow EXCEPT !.year = Num(2025)],
     [KRow EXCEPT !.year = NaN],
     [KRow EXCEPT !.audiCnt = Num(0)],
     [KRow EXCEPT !.audiCnt = Num(-5)],
     [KRow EXCEPT !.audiCnt = NaN, !.audiAcc = Num(10000000)],
     [KRow EXCEPT !.salesAmt = Num(-1)],
     [KRow EXCEPT !.salesAmt = NaN],
     [KRow EXCEPT !.audiCnt = Num(-5), !.salesAmt = Num(-1)]}

GenreRows ==
    {[KRow EXCEPT !.genres = NaNStr],
     [KRow EXCEPT !.genres = Str(<<>>)],
     [KRow EXCEPT !.genres = Str(<<"A">>)],
     [KRow EXCEPT !.genres = Str(<<"D">>), !.audiCnt = Num(501)],
     [KRow EXCEPT !.genres = Str(<<"A", ",", "D">>), !.audiCnt = Num(12000000)],
     [KRow EXCEPT !.genres = Str(<<"D", ",", " ", "D">>)],
     [KRow EXCEPT !.genres = Str(<<" ", "D", " ", ",", ",", "A">>), !.audiCnt = Num(501)],
     [KRow EXCEPT !.genres = Str(<<"\t", "D", ",", "D", "\n", ",", "U+3000">>)],
     [KRow EXCEPT !.genres = Str(<<"A", ",", "B", ",", "C", ",", "D", ",", "E", ",",
                                   "F", ",", "G", ",", "H", ",", "I">>)]}

DateRows ==
    {[KRow EXCEPT !.openDt = d, !.year = y] :
        d \in {NaN, Num(202313), Num(202301), Num(202307)},
        y \in {Num(2021), Num(2023)}}
    \cup {[KRow EXCEPT !.scrnCnt = NaN], [KRow EXCEPT !.scrnCnt = NaN, !.openDt = NaN]}

RatingRows ==
    {[TRow EXCEPT !.vote_average = v] :
        v \in {NaN, Num(-1), Num(79), Num(80), Num(85), Num(101)}}
    \cup {[TRow EXCEPT !.popularity = q] : q \in {NaN, Num(5)}}
    \cup {[TRow EXCEPT !.vote_average = Num(80), !.popularity = Num(5)]}

LanguageRows ==
    {[TRow EXCEPT !.original_language = l, !.year = y] :
        l \in {Str("en"), Str("ko"), [na |-> TRUE, v |-> ""]},
        y \in {Num(2021), Num(2023), Num(2025)}}

\* The files read: tables of at most MaxRows rows of one of the kinds above,
\* some followed by PadRows more rows (more rows than a ranking has) or by
\* TiePad more rows (equal rows in a table a ranking shows whole), and files that
\* lack one column, with and without rows.
KobisInput(rows, pad) ==
    /\ kobis_csv = Frame(KobisColumns, Padded(Labelled(rows), KRow, pad))
    /\ tmdb_csv = DefaultTmdb

TmdbInput(rows, pad) ==
    /\ kobis_csv = DefaultKobis
    /\ tmdb_csv = Frame(TmdbColumns, Padded(Labelled(rows), TRow, pad))

InitFiles ==
    \/ \E m \in 0..MaxRows : \E rows \in [1..m -> AudienceRows] :
          \E pad \in {0, TiePad, PadRows} : KobisInput(rows, pad)
    \/ \E m \in 0..MaxRows : \E rows \in [1..m -> OutlierRows] : KobisInput(rows, 0)
    \/ \E m \in 0..MaxRows : \E rows \in [1..m -> GenreRows] : KobisInput(rows, 0)
    \/ \E m \in 0..MaxRows : \E rows \in [1..m -> DateRows] : KobisInput(rows, 0)
    \/ \E m \in 0..MaxRows : \E rows \in [1..m -> RatingRows] :
          \E pad \in {0, PadRows} : TmdbInput(rows, pad)
    \/ \E m \in 0..MaxRows : \E rows \in [1..m -> LanguageRows] : TmdbInput(rows, 0)
    \/ \E c \in KobisColumns : \E n \in {0, 1} :
          /\ kobis_csv = Frame(KobisColumns \ {c}, Padded(<<>>, KRow, n))
          /\ tmdb_csv = DefaultTmdb
    \/ \E c \in TmdbColumns : \E n \in {0, 1} :
          /\ kobis_csv = DefaultKobis
          /\ tmdb_csv = Frame(TmdbColumns \ {c}, Padded(<<>>, TRow, n))

----------------------------------------------------------------------------

Init ==
    /\ InitFiles
    /\ kobis_df = None
    /\ tmdb_df = None
    /\ kobis_recent = None
    /\ tmdb_recent = None
    /\ key_metrics = NoKeyMetrics
    /\ korean = NoKorean
    /\ global = NoGlobal
    /\ insights = NoInsights
    /\ fault = "none"
    /\ pc = "start"

Next ==
    \/ load_and_process_data
    \/ main_stop
    \/ main_filter
    \/ show_key_metrics
    \/ show_korean_analysis
    \/ show_global_analysis
    \/ show_insights

Spec == Init /\ [][Next]_vars

----------------------------------------------------------------------------
(* Properties.                                                             *)

Indices(rows) == {rows[i].idx : i \in 1..Len(rows)}
RowsWhere(rows, col, lo, hi) ==
    {i \in 1..Len(rows) : ~rows[i][col].na /\ lo <= rows[i][col].v /\ rows[i][col].v <= hi}

\* The cut points of the audience distribution, and the bucket they give a
\* value: one more than the number of cut points at or below it.
Cuts == <<100000, 1000000, 5000000, 10000000>>
BucketOf(x) == 1 + Cardinality({c \in 1..Len(Cuts) : Cuts[c] <= x})

\* C1: each record with an audiAcc is counted in exactly the bucket its value
\* falls in (a value equal to a cut point in the bucket that starts there), and
\* the five counts and the records without an audiAcc add up to all records.
C1_BucketCoverage ==
    korean.status = "done" =>
        LET rows == kobis_recent.rows
            c == korean.audience_counts
        IN  /\ \A b \in 1..5 :
                  c[b] = Cardinality({i \in 1..Len(rows) :
                            ~rows[i].audiAcc.na /\ BucketOf(rows[i].audiAcc.v) = b})
            /\ c[1] + c[2] + c[3] + c[4] + c[5] + CountNa(rows, "audiAcc") = Len(rows)

C1_Witness ==
    /\ korean.status = "done"
    /\ CountNa(kobis_recent.rows, "audiAcc") > 0
    /\ \E i \in 1..Len(kobis_recent.rows) : kobis_recent.rows[i].audiAcc = Num(10000000)
    /\ Len(kobis_recent.rows) > TopN
    /\ korean.audience_counts = <<0, 0, Len(kobis_recent.rows) - 2, 0, 1>>

\* A ranking of the rows of a table by a column: every entry is a row of the
\* table with its value, no entry stands behind one of smaller value, and
\* entries of equal value stand in the order of the table.
IsRanking(T, rows, col) ==
    /\ \A i \in 1..Len(T) :
          \E j \in 1..Len(rows) : rows[j].idx = T[i].idx /\ rows[j][col] = T[i].val
    /\ \A i, j \in 1..Len(T) :
          (i < j /\ ~T[i].val.na /\ ~T[j].val.na) =>
              /\ T[i].val.v >= T[j].val.v
              /\ T[i].val.v = T[j].val.v => T[i].idx < T[j].idx

\* C2: the three TOP 10 tables are in descending order of the ranked value,
\* and rows of equal value keep the order they have in the dataset (so the
\* order of the entries that have a value is fixed by the dataset alone).
C2_RankingStable ==
    /\ korean.status = "done" =>
          IsRanking(korean.top_movies, kobis_recent.rows, "audiAcc")
    /\ global.status = "done" =>
          /\ IsRanking(global.top_rated, tmdb_recent.rows, "vote_average")
          /\ IsRanking(global.top_popular, tmdb_recent.rows, "popularity")

\* C3: a TOP 10 table holds no row whose ranked value is missing, and has
\* min(10, number of rows with a value) entries.
C3_NoMissingInTopN ==
    /\ korean.status = "done" =>
          /\ \A i \in 1..Len(korean.top_movies) : ~korean.top_movies[i].val.na
          /\ Len(korean.top_movies) = Min(TopN, CountValid(kobis_recent.rows, "audiAcc"))
    /\ global.status = "done" =>
          /\ \A i \in 1..Len(global.top_rated) : ~global.top_rated[i].val.na
          /\ Len(global.top_rated) = Min(TopN, CountValid(tmdb_recent.rows, "vote_average"))
          /\ \A i \in 1..Len(global.top_popular) : ~global.top_popular[i].val.na
          /\ Len(global.top_popular) = Min(TopN, CountValid(tmdb_recent.rows, "popularity"))

\* C4: the genre explosion emits at most one entry per record and label.
C4_GenreDedup ==
    korean.status = "done" =>
        \A i, j \in 1..Len(korean.genre_data) :
            (korean.genre_data[i].row = korean.genre_data[j].row
             /\ korean.genre_data[i].genre = korean.genre_data[j].genre) => i = j

\* The labels of a record: the parts of its genres, stripped, that are not empty.
LabelsOf(r) ==
    IF r.genres.na THEN {}
    ELSE {Strip(Split(r.genres.v)[i]) : i \in 1..Len(Split(r.genres.v))} \ {<<>>}

\* C5: a genre's total is the sum of the full audiCnt of the records whose
\* labels hold the genre, its count the number of those records, and the
\* dataset has the rows it had before the explosion.
C5_GenreFanOut ==
    korean.status = "done" =>
        /\ \A g \in DOMAIN korean.genre_summary :
              LET mine == SelectSeq(kobis_recent.rows, LAMBDA r : g \in LabelsOf(r))
              IN  /\ korean.genre_summary[g].total_audience = SumCol(mine, "audiCnt")
                  /\ korean.genre_summary[g].movies = Len(mine)
        /\ Indices(kobis_recent.rows) = Indices(RecentOf(kobis_df).rows)
        /\ Len(kobis_recent.rows) = Len(RecentOf(kobis_df).rows)

Loaded == pc # "start" /\ ~kobis_df.none /\ ~tmdb_df.none

\* C6 as stated: a record of the file whose year is within the horizon stays
\* in the dataset load_and_process_data returns, whatever its audiCnt,
\* salesAmt or rating.
C6_OutlierRowKept ==
    Loaded =>
        /\ \A i \in 1..Len(kobis_csv.rows) :
              Le(kobis_csv.rows[i].year, current_year) =>
                  kobis_csv.rows[i].idx \in Indices(kobis_df.rows)
        /\ \A i \in 1..Len(tmdb_csv.rows) :
              Le(tmdb_csv.rows[i].year, current_year) =>
                  tmdb_csv.rows[i].idx \in Indices(tmdb_df.rows)

\* The records of the files that are within the horizon and whose audiCnt and
\* salesAmt (rating) are present and in range.
SoundKobis ==
    {i \in 1..Len(kobis_csv.rows) :
        /\ ~kobis_csv.rows[i].year.na /\ kobis_csv.rows[i].year.v <= 2024
        /\ ~kobis_csv.rows[i].audiCnt.na /\ kobis_csv.rows[i].audiCnt.v >= 0
        /\ ~kobis_csv.rows[i].salesAmt.na /\ kobis_csv.rows[i].salesAmt.v >= 0}
SoundTmdb ==
    {i \in 1..Len(tmdb_csv.rows) :
        /\ ~tmdb_csv.rows[i].year.na /\ tmdb_csv.rows[i].year.v <= 2024
        /\ ~tmdb_csv.rows[i].vote_average.na
        /\ tmdb_csv.rows[i].vote_average.v >= 0 /\ tmdb_csv.rows[i].vote_average.v <= 100}

RECURSIVE SumOver(_, _, _)
SumOver(S, rows, col) ==
    IF S = {} THEN 0
    ELSE LET i == CHOOSE x \in S : TRUE
         IN  (IF rows[i][col].na THEN 0 ELSE rows[i][col].v) + SumOver(S \ {i}, rows, col)

\* C6 as amended: the datasets returned hold exactly the records within the
\* horizon whose audiCnt and salesAmt (rating) are present and in range, and the
\* views over other metrics count no other record.
C6_OutlierRowDropped ==
    /\ Loaded =>
          /\ Indices(kobis_df.rows) = {kobis_csv.rows[i].idx : i \in SoundKobis}
          /\ Len(kobis_df.rows) = Cardinality(SoundKobis)
          /\ Indices(tmdb_df.rows) = {tmdb_csv.rows[i].idx : i \in SoundTmdb}
          /\ Len(tmdb_df.rows) = Cardinality(SoundTmdb)
    /\ key_metrics.ran =>
          key_metrics.total_audience =
              SumOver({i \in SoundKobis : kobis_csv.rows[i].year.v \in {2022, 2023, 2024}},
                      kobis_csv.rows, "audiAcc")
    /\ korean.status = "done" =>
          /\ \A i \in 1..Len(korean.top_movies) :
                korean.top_movies[i].idx \in {kobis_csv.rows[j].idx : j \in SoundKobis}
          /\ LET c == korean.audience_counts
             IN  c[1] + c[2] + c[3] + c[4] + c[5]
                    = Cardinality({i \in SoundKobis :
                          /\ kobis_csv.rows[i].year.v \in {2022, 2023, 2024}
                          /\ ~kobis_csv.rows[i].audiAcc.na})
    /\ global.status = "done" =>
          \A i \in 1..Len(global.top_popular) :
              global.top_popular[i].idx \in {tmdb_csv.rows[j].idx : j \in SoundTmdb}
    /\ (insights.ran /\ insights.kobis_summary # <<>>) =>
          insights.kobis_summary.movies =
              Cardinality({i \in SoundKobis :
                  kobis_csv.rows[i].year.v \in {2022, 2023, 2024}})

C6_Witness ==
    /\ pc = "done"
    /\ korean.status = "done"
    /\ Len(kobis_csv.rows) = 2
    /\ Len(kobis_df.rows) = 1
    /\ \E i \in 1..2 :
          /\ kobis_csv.rows[i].audiCnt.na
          /\ kobis_csv.rows[i].year = Num(2023)
          /\ kobis_csv.rows[i].audiAcc = Num(10000000)
    /\ korean.audience_counts = <<0, 0, 1, 0, 0>>

AllColumns == kobis_csv.cols = KobisColumns /\ tmdb_csv.cols = TmdbColumns

\* C7: with every column present no view raises, whatever the rows: an empty
\* dataset, or one whose records all lack the metric, gives neutral results.
C7_NoFaultOnEmptySlice ==
    AllColumns => (fault = "none" /\ pc # "crashed")

\* C8 as stated: every rate computed is a fraction between 0 and 1.
C8_RatesArePlainRatios ==
    insights.ran =>
        \A n \in DOMAIN insights.rates :
            /\ insights.rates[n][2] > 0
            /\ 0 <= insights.rates[n][1]
            /\ insights.rates[n][1] <= insights.rates[n][2]

\* The tab4 dataset before show_insights adds its month column.
Summer(rows) ==
    {i \in 1..Len(rows) : ~rows[i].openDt.na /\ rows[i].openDt.v % 100 \in {6, 7, 8}}

\* C8 as amended: every rate computed is a percentage between 0 and 100, one
\* hundred times the fraction it reports, and a denominator of zero gives 0.
C8_RatesArePercentages ==
    /\ \A c \in 0..MaxRows : Rate(c, 0)[1] = 0 /\ Rate(c, 0)[2] > 0
    /\ insights.ran =>
          /\ \A n \in DOMAIN insights.rates :
                /\ insights.rates[n][2] > 0
                /\ 0 <= insights.rates[n][1]
                /\ insights.rates[n][1] <= 100 * insights.rates[n][2]
          /\ "blockbuster" \in DOMAIN insights.rates =>
                insights.rates["blockbuster"][1] * Len(kobis_recent.rows)
                  = 100 * Cardinality(RowsWhere(kobis_recent.rows, "audiAcc", 10000000, 2000000000))
                        * insights.rates["blockbuster"][2]
          /\ "summer" \in DOMAIN insights.rates =>
                insights.rates["summer"][1] * CountValid(kobis_recent.rows, "openDt")
                  = 100 * Cardinality(Summer(kobis_recent.rows))
                        * insights.rates["summer"][2]
          /\ "quality" \in DOMAIN insights.rates =>
                insights.rates["quality"][1] * Len(tmdb_recent.rows)
                  = 100 * Cardinality(RowsWhere(tmdb_recent.rows, "vote_average", 80, 100))
                        * insights.rates["quality"][2]
          /\ DOMAIN insights.rates =
                (IF Len(kobis_recent.rows) > 0 THEN {"blockbuster"} ELSE {})
                \cup (IF CountValid(kobis_recent.rows, "openDt") > 0 THEN {"summer"} ELSE {})
                \cup (IF Len(tmdb_recent.rows) > 0 THEN {"quality"} ELSE {})

C8_Witness ==
    /\ insights.ran
    /\ DOMAIN insights.rates = {"blockbuster", "summer", "quality"}
    /\ insights.rates["blockbuster"] = <<100, 2>>
    /\ insights.rates["summer"] = <<200, 2>>
    /\ insights.rates["quality"] = <<100, 1>>

Viewing == pc \in {"tab1", "tab2", "tab3", "tab4", "done", "crashed"}

\* C9: the dataset every view is given, and leaves behind, is the one main
\* built: no view changes its records or its columns.
C9_DatasetsReadOnly ==
    Viewing => (kobis_recent = RecentOf(kobis_df) /\ tmdb_recent = RecentOf(tmdb_df))

RequiredKobis == KobisColumns \ {"genres"}
RequiredTmdb == TmdbColumns \ {"original_language"}

\* C10: the load returns no dataset, and main starts no view, exactly when a
\* file lacks a column the pipeline requires.
C10_MissingColumnStopsLoad ==
    pc # "start" =>
        IF RequiredKobis \subseteq kobis_csv.cols /\ RequiredTmdb \subseteq tmdb_csv.cols
        THEN ~kobis_df.none /\ ~tmdb_df.none
        ELSE kobis_df.none /\ tmdb_df.none /\ pc \in {"loaded", "stopped"}

=============================================================================
